---- MODULE Spec2Model ----
(***************************************************************************)
(* A model of the smart mailer (src/smart_mailer.py) and of its beacon     *)
(* counter service (src/server.py).                                        *)
(*                                                                         *)
(* The two programs share nothing, and the mailer's validators, loader,    *)
(* renderer and dispatcher are called one after the other, so the module   *)
(* has one specification per component:                                    *)
(*   SpecBeacon     the three HTTP handlers of server.py                   *)
(*   SpecMailer     read_csv followed by send_emails_with_report           *)
(*   SpecRender     the placeholder substitution of send_email             *)
(*   SpecValidator  check_txt_file_extension and check_csv_file_validity   *)
(* Text is a sequence of one-character strings, indexed from 0 in the      *)
(* operators that model Python's str methods.                              *)
(***************************************************************************)
EXTENDS Integers, Sequences, FiniteSets, TLC

\* ------------------------------------------------------------------ bounds
MaxReq == 3
MaxRows == 3
MaxBodyPieces == 3
MaxPieces == 6
MaxHeaderFields == 4

\* --------------------------------------------------------------- variables
VARIABLES
    \* server.py
    counter,        \* the global counter
    counter_lock,   \* 0 when free, else the request that holds it
    kind,           \* the route each request asks for
    pc,             \* each request's position in its handler
    tmp,            \* the value counter += 1 has loaded
    resp,           \* the number GET /counter put in its message
    readLock,       \* history: who held counter_lock when GET /counter read
    afterAll,       \* history: the request started after every beacon hit ended
    overlap,        \* history: two beacon hits were in their handler together
    \* smart_mailer.py, read_csv and send_emails_with_report
    csv_rows,       \* the rows csv.DictReader yields for the recipient file
    department_code,\* the group filter the user typed
    has_newline,    \* the template file holds a newline after its subject
    mpc,            \* position in send_emails_with_report
    filtered_list,  \* what read_csv returned (recipients)
    recIdx,         \* the recipient the for loop is at
    sent_count,     \* the dict, as its items in insertion order
    log,            \* history: the send attempts and the sleeps, in order
    report,         \* the lines printed after "Report:"
    \* smart_mailer.py, the rendering in send_email
    body,           \* the template body send_email is given
    name,           \* the recipient's name
    department,     \* the recipient's department code
    rendered,       \* the body attached to the message
    rpc,            \* "start", then "done" once the body is rendered
    \* smart_mailer.py, the validators
    file_path,      \* the path the user typed
    exists,         \* os.path.exists(file_path)
    content,        \* file.read() of a text file at that path
    csv_file,       \* the rows csv.reader yields for a CSV file at that path
    called,         \* the validator that was called, "none" before
    result          \* what it returned: "true", "false", or "raised"

beaconVars == <<counter, counter_lock, kind, pc, tmp, resp, readLock, afterAll, overlap>>

mailerVars == <<csv_rows, department_code, has_newline, mpc, filtered_list, recIdx,
                sent_count, log, report>>

renderVars == <<body, name, department, rendered, rpc>>

validatorVars == <<file_path, exists, content, csv_file, called, result>>

vars == <<beaconVars, mailerVars, renderVars, validatorVars>>

notBeacon == <<mailerVars, renderVars, validatorVars>>

notMailer == <<beaconVars, renderVars, validatorVars>>

notRender == <<beaconVars, mailerVars, validatorVars>>

notValidator == <<beaconVars, mailerVars, renderVars>>

\* ============================================================== server.py
\* Requests may interleave at every step of a handler, as threads would: the
\* scheduling of an event loop, which runs a handler without await as a
\* whole, is among the behaviours this allows.
Req == 1..MaxReq

Routes == {"/", "/track.png", "/counter"}

Tracks == {r \in Req : kind[r] = "/track.png"}

InHandler(r) == pc[r] \notin {"idle", "done"}

BeaconInit ==
    /\ counter = 0
    /\ counter_lock = 0
    /\ kind \in [Req -> Routes]
    /\ pc = [r \in Req |-> "idle"]
    /\ tmp = [r \in Req |-> 0]
    /\ resp = [r \in Req |-> -1]
    /\ readLock = [r \in Req |-> -1]
    /\ afterAll = [r \in Req |-> FALSE]
    /\ overlap = FALSE

BeaconIdle ==
    /\ counter = 0
    /\ counter_lock = 0
    /\ kind = [r \in Req |-> "/"]
    /\ pc = [r \in Req |-> "idle"]
    /\ tmp = [r \in Req |-> 0]
    /\ resp = [r \in Req |-> -1]
    /\ readLock = [r \in Req |-> -1]
    /\ afterAll = [r \in Req |-> FALSE]
    /\ overlap = FALSE

\* The server accepts request r and enters its handler.
Arrive(r) ==
    /\ pc[r] = "idle"
    /\ pc' = [pc EXCEPT ![r] = "start"]
    /\ afterAll' = [afterAll EXCEPT ![r] = \A t \in Tracks : pc[t] = "done"]
    /\ overlap' = (overlap \/ (kind[r] = "/track.png" /\ \E t \in Tracks : InHandler(t)))
    /\ UNCHANGED <<counter, counter_lock, kind, tmp, resp, readLock>>
    /\ UNCHANGED notBeacon

\* root
Root(r) ==
    /\ kind[r] = "/"
    /\ pc[r] = "start"
    /\ pc' = [pc EXCEPT ![r] = "done"]
    /\ UNCHANGED <<counter, counter_lock, kind, tmp, resp, readLock, afterAll, overlap>>
    /\ UNCHANGED notBeacon

\* track: with counter_lock (enter)
TrackAcquire_NoLock(r) ==
    /\ kind[r] = "/track.png"
    /\ pc[r] = "start"
    /\ pc' = [pc EXCEPT ![r] = "locked"]
    /\ counter_lock' = r
    /\ UNCHANGED <<counter, kind, tmp, resp, readLock, afterAll, overlap>>
    /\ UNCHANGED notBeacon

TrackAcquire(r) ==
    /\ kind[r] = "/track.png"
    /\ pc[r] = "start"
    /\ counter_lock = 0
    /\ counter_lock' = r
    /\ pc' = [pc EXCEPT ![r] = "locked"]
    /\ UNCHANGED <<counter, kind, tmp, resp, readLock, afterAll, overlap>>
    /\ UNCHANGED notBeacon

\* track: counter += 1, the load of the global
TrackLoad(r) ==
    /\ pc[r] = "locked"
    /\ tmp' = [tmp EXCEPT ![r] = counter]
    /\ pc' = [pc EXCEPT ![r] = "loaded"]
    /\ UNCHANGED <<counter, counter_lock, kind, resp, readLock, afterAll, overlap>>
    /\ UNCHANGED notBeacon

\* track: counter += 1, the store to the global
TrackStore(r) ==
    /\ pc[r] = "loaded"
    /\ counter' = tmp[r] + 1
    /\ pc' = [pc EXCEPT ![r] = "stored"]
    /\ UNCHANGED <<counter_lock, kind, tmp, resp, readLock, afterAll, overlap>>
    /\ UNCHANGED notBeacon

\* track: with counter_lock (exit)
TrackRelease(r) ==
    /\ pc[r] = "stored"
    /\ counter_lock' = 0
    /\ pc' = [pc EXCEPT ![r] = "respond"]
    /\ UNCHANGED <<counter, kind, tmp, resp, readLock, afterAll, overlap>>
    /\ UNCHANGED notBeacon

\* track: return FileResponse(...)
TrackRespond(r) ==
    /\ pc[r] = "respond"
    /\ pc' = [pc EXCEPT ![r] = "done"]
    /\ UNCHANGED <<counter, counter_lock, kind, tmp, resp, readLock, afterAll, overlap>>
    /\ UNCHANGED notBeacon

\* show_counter: the message is built from the global, read as it is.
ShowCounter(r) ==
    /\ kind[r] = "/counter"
    /\ pc[r] = "start"
    /\ resp' = [resp EXCEPT ![r] = counter]
    /\ readLock' = [readLock EXCEPT ![r] = counter_lock]
    /\ pc' = [pc EXCEPT ![r] = "done"]
    /\ UNCHANGED <<counter, counter_lock, kind, tmp, afterAll, overlap>>
    /\ UNCHANGED notBeacon

\* ========================================================= smart_mailer.py
\* ------------------------------------------------------------------- text
\* The characters of the model's texts, by the classes EMAIL_REGEX names.
Alpha == {"a", "b", "c", "i", "o", "x", "Z"}

Digit == {"0", "1"}

WordChar == Alpha \cup Digit \cup {"_"}

LocalChar == WordChar \cup {".", "-"}

DomainChar == Alpha \cup Digit \cup {".", "-"}

\* re.match(EMAIL_REGEX, email) is not None, for
\* ^[\w\.-]+@[a-zA-Z\d\.-]+\.[a-zA-Z]{2,}$ : some split of the text into a
\* local part, "@", a domain, "." and two or more letters matches, and $ is
\* the end of the text or the place before a newline that ends it.
is_valid_email(email) ==
    \E at \in 2..Len(email) :
        /\ email[at] = "@"
        /\ \A i \in 1..(at - 1) : email[i] \in LocalChar
        /\ \E dot \in (at + 2)..Len(email) :
             /\ email[dot] = "."
             /\ \A i \in (at + 1)..(dot - 1) : email[i] \in DomainChar
             /\ \E end \in {Len(email) - 1, Len(email)} :
                  /\ end >= dot + 2
                  /\ \A i \in (dot + 1)..end : email[i] \in Alpha
                  /\ (end = Len(email) \/ email[Len(email)] = "\n")

\* --------------------------------------------------------------- read_csv
\* The recipient files of the model: up to MaxRows rows, each with one of
\* these addresses and one of these department codes.
EmailSamples ==
    { <<"a", "@", "b", ".", "c", "c">>,
      <<"x", "_", "1", "@", "b", "-", "c", ".", "i", "o">>,
      <<"a", "@", "b", ".", "c">> }

Depts == {"A", "B"}

Filters == {"all", "A", "b"}

Rows == [email : EmailSamples, name : {"Ann"}, department_code : Depts]

CsvFiles == UNION {[1..n -> Rows] : n \in 0..MaxRows}

\* The body of read_csv's for loop: the row is appended when the filter is
\* 'all' or equals its department_code, and its email is valid.
read_csv_step_NoEmailCheck(acc, row, dept) ==
    IF dept = "all" \/ row.department_code = dept
    THEN Append(acc, row)
    ELSE acc

read_csv_step(acc, row, dept) ==
    IF dept = "all" \/ row.department_code = dept
    THEN IF is_valid_email(row.email) THEN Append(acc, row) ELSE acc
    ELSE acc

RECURSIVE read_csv_loop(_, _, _, _)
read_csv_loop(rows, dept, i, acc) ==
    IF i > Len(rows) THEN acc
    ELSE read_csv_loop(rows, dept, i + 1, read_csv_step(acc, rows[i], dept))

read_csv(rows, dept) == read_csv_loop(rows, dept, 1, <<>>)

\* ------------------------------------------------ send_emails_with_report
DELAY_BETWEEN_EMAILS == 5

\* sent_count.get(key, 0)
DictGet(d, key) ==
    IF \E k \in 1..Len(d) : d[k].key = key
    THEN d[CHOOSE k \in 1..Len(d) : d[k].key = key].count
    ELSE 0

DictHas(d, key) == \E k \in 1..Len(d) : d[k].key = key

\* sent_count[key] = sent_count.get(key, 0) + 1: a new key goes last, a key
\* the dict holds keeps its place.
DictIncr_MoveToEnd(d, key) ==
    Append(SelectSeq(d, LAMBDA e : e.key # key), [key |-> key, count |-> DictGet(d, key) + 1])

DictIncr(d, key) ==
    IF DictHas(d, key)
    THEN [k \in 1..Len(d) |->
            IF d[k].key = key THEN [key |-> key, count |-> d[k].count + 1] ELSE d[k]]
    ELSE Append(d, [key |-> key, count |-> 1])

MailerInit ==
    /\ csv_rows \in CsvFiles
    /\ department_code \in Filters
    /\ has_newline \in BOOLEAN
    /\ mpc = "start"
    /\ filtered_list = <<>>
    /\ recIdx = 1
    /\ sent_count = <<>>
    /\ log = <<>>
    /\ report = <<>>

MailerIdle ==
    /\ csv_rows = <<>>
    /\ department_code = "all"
    /\ has_newline = TRUE
    /\ mpc = "start"
    /\ filtered_list = <<>>
    /\ recIdx = 1
    /\ sent_count = <<>>
    /\ log = <<>>
    /\ report = <<>>

\* recipients = read_csv(csv_file, department_code)
Load ==
    /\ mpc = "start"
    /\ filtered_list' = read_csv(csv_rows, department_code)
    /\ mpc' = "template"
    /\ UNCHANGED <<csv_rows, department_code, has_newline, recIdx, sent_count, log, report>>
    /\ UNCHANGED notMailer

\* subject, body_template = read_email_template(email_template_path); then
\* sent_count = {} and the loop begins.
ReadTemplate ==
    /\ mpc = "template"
    /\ has_newline
    /\ mpc' = "loop"
    /\ UNCHANGED <<csv_rows, department_code, has_newline, filtered_list, recIdx,
                   sent_count, log, report>>
    /\ UNCHANGED notMailer

\* read_email_template on a file of one line: content[1] raises IndexError,
\* which nothing catches.
ReadTemplateRaises ==
    /\ mpc = "template"
    /\ ~has_newline
    /\ mpc' = "raised"
    /\ UNCHANGED <<csv_rows, department_code, has_newline, filtered_list, recIdx,
                   sent_count, log, report>>
    /\ UNCHANGED notMailer

\* One pass of the loop in which send_email returns True: the count of the
\* recipient's department goes up and the confirmation is printed; the
\* sleep follows.
SendOk ==
    /\ mpc = "loop"
    /\ recIdx <= Len(filtered_list)
    /\ log' = Append(log, [ev |-> "send", idx |-> recIdx, ok |-> TRUE])
    /\ sent_count' = DictIncr(sent_count, filtered_list[recIdx].department_code)
    /\ mpc' = "sleep"
    /\ UNCHANGED <<csv_rows, department_code, has_newline, filtered_list, recIdx, report>>
    /\ UNCHANGED notMailer

\* time.sleep(DELAY_BETWEEN_EMAILS), and on to the next recipient.
Sleep ==
    /\ mpc = "sleep"
    /\ log' = Append(log, [ev |-> "sleep", secs |-> DELAY_BETWEEN_EMAILS])
    /\ recIdx' = recIdx + 1
    /\ mpc' = "loop"
    /\ UNCHANGED <<csv_rows, department_code, has_newline, filtered_list, sent_count, report>>
    /\ UNCHANGED notMailer

\* One pass of the loop in which send_email returns False (its except branch
\* caught what the rendering or the SMTP session raised): on to the next
\* recipient.
SendFail_Break ==
    /\ mpc = "loop"
    /\ recIdx <= Len(filtered_list)
    /\ log' = Append(log, [ev |-> "send", idx |-> recIdx, ok |-> FALSE])
    /\ recIdx' = Len(filtered_list) + 1
    /\ UNCHANGED <<csv_rows, department_code, has_newline, mpc, filtered_list,
                   sent_count, report>>
    /\ UNCHANGED notMailer

SendFail_Counts ==
    /\ mpc = "loop"
    /\ recIdx <= Len(filtered_list)
    /\ log' = Append(log, [ev |-> "send", idx |-> recIdx, ok |-> FALSE])
    /\ sent_count' = DictIncr(sent_count, filtered_list[recIdx].department_code)
    /\ recIdx' = recIdx + 1
    /\ UNCHANGED <<csv_rows, department_code, has_newline, mpc, filtered_list, report>>
    /\ UNCHANGED notMailer

SendFail_Sleeps ==
    /\ mpc = "loop"
    /\ recIdx <= Len(filtered_list)
    /\ log' = Append(log, [ev |-> "send", idx |-> recIdx, ok |-> FALSE])
    /\ mpc' = "sleep"
    /\ UNCHANGED <<csv_rows, department_code, has_newline, filtered_list, recIdx,
                   sent_count, report>>
    /\ UNCHANGED notMailer

SendFail ==
    /\ mpc = "loop"
    /\ recIdx <= Len(filtered_list)
    /\ log' = Append(log, [ev |-> "send", idx |-> recIdx, ok |-> FALSE])
    /\ recIdx' = recIdx + 1
    /\ UNCHANGED <<csv_rows, department_code, has_newline, mpc, filtered_list,
                   sent_count, report>>
    /\ UNCHANGED notMailer

\* The loop is over: one line per item of sent_count, in the dict's order.
Report ==
    /\ mpc = "loop"
    /\ recIdx > Len(filtered_list)
    /\ report' = sent_count
    /\ mpc' = "done"
    /\ UNCHANGED <<csv_rows, department_code, has_newline, filtered_list, recIdx,
                   sent_count, log>>
    /\ UNCHANGED notMailer

\* ------------------------------------------------------------ str methods
\* sub is found in s at the 0-based index i.
StartsAt(s, sub, i) ==
    /\ i >= 0
    /\ i + Len(sub) <= Len(s)
    /\ \A k \in 1..Len(sub) : s[i + k] = sub[k]

\* s.find(sub, start): the lowest index >= start where sub is found, or -1;
\* a negative start counts from the end of s.
PyFind(s, sub, start) ==
    LET from == IF start >= 0 THEN start
                ELSE IF start + Len(s) >= 0 THEN start + Len(s) ELSE 0
        hits == {i \in from..(Len(s) - Len(sub)) : StartsAt(s, sub, i)}
    IN  IF hits = {} THEN -1 ELSE CHOOSE i \in hits : \A j \in hits : i <= j

\* s.replace(old, new) from index i on: the occurrences of old are taken from
\* left to right, each search going on after the occurrence before.
RECURSIVE ReplaceFrom(_, _, _, _)
ReplaceFrom(s, old, new, i) ==
    IF i >= Len(s) THEN <<>>
    ELSE IF StartsAt(s, old, i) THEN new \o ReplaceFrom(s, old, new, i + Len(old))
    ELSE <<s[i + 1]>> \o ReplaceFrom(s, old, new, i + 1)

PyReplace(s, old, new) == ReplaceFrom(s, old, new, 0)

\* s.endswith(suffix)
EndsWith(s, suffix) ==
    /\ Len(suffix) <= Len(s)
    /\ SubSeq(s, Len(s) - Len(suffix) + 1, Len(s)) = suffix

RECURSIVE Concat(_)
Concat(ss) == IF ss = <<>> THEN <<>> ELSE Head(ss) \o Concat(Tail(ss))

\* ------------------------------------------------------------- send_email
NamePlaceholder == <<"#", "n", "a", "m", "e", "#">>

DepartmentPlaceholder == <<"#", "d", "e", "p", "a", "r", "t", "m", "e", "n", "t", "#">>

TRACKING_IMAGE_URL ==
    <<"h", "t", "t", "p", ":", "/", "/", "1", "3", ".", "2", "1", "5", ".",
      "2", "0", "0", ".", "9", "0", "/", "t", "r", "a", "c", "k", ".", "p",
      "n", "g">>

\* f'<img src="{tracking_url}" width="1" height="1" alt=""/>'
BeaconTag ==
    <<"<", "i", "m", "g", " ", "s", "r", "c", "=", "\"">>
    \o TRACKING_IMAGE_URL \o
    <<"\"", " ", "w", "i", "d", "t", "h", "=", "\"", "1", "\"", " ", "h", "e",
      "i", "g", "h", "t", "=", "\"", "1", "\"", " ", "a", "l", "t", "=",
      "\"", "\"", "/", ">">>

\* body = body.replace('#name#', name).replace('#department#', department)
\* body += the beacon tag
render(b, n, d) ==
    PyReplace(PyReplace(b, NamePlaceholder, n), DepartmentPlaceholder, d) \o BeaconTag

\* The template bodies of the model: up to MaxBodyPieces of these pieces.
BodyPieces ==
    { NamePlaceholder, DepartmentPlaceholder,
      <<"H", "i", " ">>,
      <<"d", "e", "p", "a", "r", "t", "m", "e", "n", "t", "#">> }

Bodies == {Concat(ps) : ps \in UNION {[1..n -> BodyPieces] : n \in 0..MaxBodyPieces}}

Names == { <<"A", "n", "n">>, DepartmentPlaceholder }

RenderDepts == { <<"X">> }

RenderInit ==
    /\ body \in Bodies
    /\ name \in Names
    /\ department \in RenderDepts
    /\ rendered = <<>>
    /\ rpc = "start"

RenderIdle ==
    /\ body = <<>>
    /\ name = <<>>
    /\ department = <<>>
    /\ rendered = <<>>
    /\ rpc = "start"

\* send_email up to msg.attach(MIMEText(body, 'html'))
Render ==
    /\ rpc = "start"
    /\ rendered' = render(body, name, department)
    /\ rpc' = "done"
    /\ UNCHANGED <<body, name, department>>
    /\ UNCHANGED notRender

\* ------------------------------------------------------------- validators
required_elements ==
    << <<"<", "h", "t", "m", "l", ">">>,
       <<"<", "b", "o", "d", "y", ">">>,
       NamePlaceholder,
       DepartmentPlaceholder,
       <<"<", "/", "b", "o", "d", "y", ">">>,
       <<"<", "/", "h", "t", "m", "l", ">">> >>

\* The for loop of check_txt_file_extension from the k-th element on:
\* start_index is what the find before returned, flag is set once a find
\* returned -1. What the function returns is whether flag stayed False.
RECURSIVE elements_loop(_, _, _, _)
elements_loop(text, k, start_index, flag) ==
    IF k > Len(required_elements) THEN ~flag
    ELSE LET found == PyFind(text, required_elements[k], start_index)
         IN  elements_loop(text, k + 1, found, flag \/ found = -1)

TxtSuffix == <<".", "t", "x", "t">>

CsvSuffix == <<".", "c", "s", "v">>

check_txt_file_extension(path, there, text) ==
    IF ~EndsWith(path, TxtSuffix) THEN "false"
    ELSE IF ~there THEN "false"
    ELSE IF elements_loop(text, 1, 0, FALSE) THEN "true" ELSE "false"

\* csv.DictReader(file).fieldnames: the first row the reader yields, None
\* when it yields none.
fieldnames(rows) ==
    IF rows = <<>> THEN [none |-> TRUE, row |-> <<>>]
    ELSE [none |-> FALSE, row |-> rows[1]]

expected_fields == <<"email", "name", "department_code">>

\* field_names[:3]
FirstThree(row) == SubSeq(row, 1, IF Len(row) < 3 THEN Len(row) ELSE 3)

check_csv_file_validity(path, there, rows) ==
    IF ~EndsWith(path, CsvSuffix) THEN "false"
    ELSE IF ~there THEN "false"
    ELSE IF fieldnames(rows).none THEN "raised"
    ELSE IF FirstThree(fieldnames(rows).row) # expected_fields THEN "false"
    ELSE "true"

\* The files of the model.  A template is up to MaxPieces of these pieces,
\* each used once at most; a recipient file is empty or has one row of up to
\* MaxHeaderFields of these field names.
Paths ==
    { <<"t", ".", "t", "x", "t">>,
      <<"m", ".", "c", "s", "v">>,
      <<"t", "x", "t">> }

TemplatePieces ==
    { required_elements[k] : k \in 1..Len(required_elements) } \cup
    { <<"d", "e", "p", "a", "r", "t", "m", "e", "n", "t", "#">> }

Templates ==
    {Concat(ps) : ps \in
        {f \in UNION {[1..n -> TemplatePieces] : n \in 0..MaxPieces} :
            \A i, j \in DOMAIN f : i # j => f[i] # f[j]}}

FieldNames == {"email", "name", "department_code", "phone"}

HeaderRows == UNION {[1..n -> FieldNames] : n \in 0..MaxHeaderFields}

RecipientFiles == {<<>>} \cup {<<h>> : h \in HeaderRows}

ValidatorInit ==
    /\ file_path \in Paths
    /\ exists \in BOOLEAN
    /\ content \in (IF exists /\ EndsWith(file_path, TxtSuffix) THEN Templates ELSE {<<>>})
    /\ csv_file \in (IF exists /\ EndsWith(file_path, CsvSuffix) THEN RecipientFiles ELSE {<<>>})
    /\ called = "none"
    /\ result = "none"

ValidatorIdle ==
    /\ file_path = <<>>
    /\ exists = FALSE
    /\ content = <<>>
    /\ csv_file = <<>>
    /\ called = "none"
    /\ result = "none"

\* check_txt_file calls check_txt_file_extension on the path typed.
CheckTxt ==
    /\ called = "none"
    /\ called' = "txt"
    /\ result' = check_txt_file_extension(file_path, exists, content)
    /\ UNCHANGED <<file_path, exists, content, csv_file>>
    /\ UNCHANGED notValidator

\* check_csv_file calls check_csv_file_validity on the path typed.
CheckCsv ==
    /\ called = "none"
    /\ called' = "csv"
    /\ result' = check_csv_file_validity(file_path, exists, csv_file)
    /\ UNCHANGED <<file_path, exists, content, csv_file>>
    /\ UNCHANGED notValidator

\* ========================================================= specifications
InitBeacon == BeaconInit /\ MailerIdle /\ RenderIdle /\ ValidatorIdle

NextBeacon ==
    \/ \E r \in Req : Arrive(r)
    \/ \E r \in Req : Root(r)
    \/ \E r \in Req : TrackAcquire(r)
    \/ \E r \in Req : TrackLoad(r)
    \/ \E r \in Req : TrackStore(r)
    \/ \E r \in Req : TrackRelease(r)
    \/ \E r \in Req : TrackRespond(r)
    \/ \E r \in Req : ShowCounter(r)

SpecBeacon == InitBeacon /\ [][NextBeacon]_vars

InitMailer == MailerInit /\ BeaconIdle /\ RenderIdle /\ ValidatorIdle

NextMailer ==
    \/ Load
    \/ ReadTemplate
    \/ ReadTemplateRaises
    \/ SendOk
    \/ Sleep
    \/ SendFail
    \/ Report

SpecMailer == InitMailer /\ [][NextMailer]_vars

InitRender == RenderInit /\ BeaconIdle /\ MailerIdle /\ ValidatorIdle

NextRender == Render

SpecRender == InitRender /\ [][NextRender]_vars

InitValidator == ValidatorInit /\ BeaconIdle /\ MailerIdle /\ RenderIdle

NextValidator ==
    \/ CheckTxt
    \/ CheckCsv

SpecValidator == InitValidator /\ [][NextValidator]_vars

\* ================================================================= claims
\* ------------------------------------------------------------- SpecBeacon
\* C1: N concurrent GET /track.png requests against a fresh service leave
\* the counter at exactly N once all of them have completed, whatever the
\* interleaving, and a GET /counter that starts after all of them have
\* completed reports that N.
C1_NoLostUpdates ==
    LET N == Cardinality(Tracks) IN
    /\ (\A t \in Tracks : pc[t] = "done") => counter = N
    /\ \A r \in Req :
         (kind[r] = "/counter" /\ pc[r] = "done" /\ afterAll[r]) => resp[r] = N

C1_Witness ==
    /\ Cardinality(Tracks) >= 2
    /\ overlap
    /\ \A t \in Tracks : pc[t] = "done"
    /\ \E r \in Req : /\ kind[r] = "/counter"
                      /\ pc[r] = "done"
                      /\ afterAll[r]
                      /\ resp[r] = Cardinality(Tracks)

\* C9: every access to the counter is made holding counter_lock: the
\* increment of GET /track.png and the read of GET /counter alike, and the
\* counter only ever holds the number of increments made.
C9_EveryAccessUnderLock ==
    /\ \A r \in Req : pc[r] \in {"locked", "loaded", "stored"} => counter_lock = r
    /\ \A r \in Req : (kind[r] = "/counter" /\ pc[r] = "done") => readLock[r] = r
    /\ counter = Cardinality({t \in Tracks : pc[t] \in {"stored", "respond", "done"}})

\* ------------------------------------------------------------- SpecMailer
Running == mpc \in {"loop", "sleep", "done"}

Attempts == SelectSeq(log, LAMBDA e : e.ev = "send")

\* C2: the run never stops early on a send failure: one send attempt per
\* recipient, in the loader's order, whatever the earlier attempts returned,
\* and the run goes on until the report is printed.
C2_NeverStopsEarly ==
    Running =>
        /\ \A k \in 1..Len(Attempts) : Attempts[k].idx = k
        /\ Len(Attempts) <= Len(filtered_list)
        /\ mpc = "loop" => Len(Attempts) = recIdx - 1
        /\ mpc = "done" => Len(Attempts) = Len(filtered_list)
        /\ mpc # "done" => ENABLED (SendOk \/ SendFail \/ Sleep \/ Report)

C2_Witness ==
    /\ mpc = "done"
    /\ Len(Attempts) = 3
    /\ ~Attempts[2].ok
    /\ Attempts[3].ok

Successes(g) ==
    Cardinality({k \in 1..Len(log) :
        /\ log[k].ev = "send"
        /\ log[k].ok
        /\ filtered_list[log[k].idx].department_code = g})

RECURSIVE SumCounts(_)
SumCounts(d) == IF d = <<>> THEN 0 ELSE Head(d).count + SumCounts(Tail(d))

\* C3: the report only reflects successes: at every point of the run the
\* count of a group is the number of its recipients whose send returned
\* true, a group with no successful send has no entry, and the counts of the
\* final report add up to the number of successful sends.
C3_ReportCountsSuccesses ==
    Running =>
        /\ \A g \in Depts : DictGet(sent_count, g) = Successes(g)
        /\ \A g \in Depts : DictHas(sent_count, g) <=> Successes(g) > 0
        /\ \A k \in 1..Len(sent_count) : sent_count[k].key \in Depts
        /\ mpc = "done" =>
             /\ report = sent_count
             /\ SumCounts(report) = Cardinality({k \in 1..Len(log) :
                                        log[k].ev = "send" /\ log[k].ok})

C3_Witness ==
    /\ mpc = "done"
    /\ Len(Attempts) = 3
    /\ Attempts[1].ok
    /\ ~Attempts[2].ok
    /\ Len(report) = 1
    /\ \E k \in 1..3 : ~DictHas(sent_count, filtered_list[k].department_code)

Qualifies(row, dept) ==
    /\ (dept = "all" \/ row.department_code = dept)
    /\ is_valid_email(row.email)

Keep == {i \in 1..Len(csv_rows) : Qualifies(csv_rows[i], department_code)}

\* C4: the loader returns exactly the rows of the file that pass the filter
\* (the filter is "all", or equals the row's group code) and whose email is
\* valid, in the order of the file.
C4_LoaderIsFilteredSubsequence ==
    mpc # "start" =>
        /\ Len(filtered_list) = Cardinality(Keep)
        /\ \A i \in Keep :
             filtered_list[Cardinality({j \in Keep : j <= i})] = csv_rows[i]

C4_Witness ==
    /\ mpc # "start"
    /\ department_code = "A"
    /\ Len(filtered_list) = 1
    /\ \E i \in 1..Len(csv_rows) :
         csv_rows[i].department_code = "A" /\ ~is_valid_email(csv_rows[i].email)
    /\ \E i \in 1..Len(csv_rows) :
         csv_rows[i].department_code = "B" /\ is_valid_email(csv_rows[i].email)

\* C7: the delay follows a send attempt iff the attempt succeeded: one sleep
\* of DELAY_BETWEEN_EMAILS after each successful send, before the next
\* attempt, and none between a failed send and the next attempt.
C7_DelayIffSuccess ==
    \A k \in 1..Len(log) :
        /\ (log[k].ev = "send" /\ log[k].ok) =>
             IF k = Len(log)
             THEN mpc = "sleep"
             ELSE log[k + 1] = [ev |-> "sleep", secs |-> DELAY_BETWEEN_EMAILS]
        /\ (log[k].ev = "send" /\ ~log[k].ok) =>
             IF k = Len(log) THEN mpc # "sleep" ELSE log[k + 1].ev = "send"
        /\ log[k].ev = "sleep" =>
             k > 1 /\ log[k - 1].ev = "send" /\ log[k - 1].ok

C7_Witness ==
    /\ Len(log) >= 4
    /\ log[1].ev = "send" /\ log[1].ok
    /\ log[2].ev = "sleep"
    /\ log[3].ev = "send" /\ ~log[3].ok
    /\ log[4].ev = "send"

GroupOf(i) == filtered_list[i].department_code

FirstSeen(g) ==
    CHOOSE i \in 1..Len(filtered_list) :
        GroupOf(i) = g /\ \A j \in 1..(i - 1) : GroupOf(j) # g

FirstSuccess(g) ==
    CHOOSE k \in 1..Len(log) :
        /\ log[k].ev = "send" /\ log[k].ok /\ GroupOf(log[k].idx) = g
        /\ \A j \in 1..(k - 1) :
             ~(log[j].ev = "send" /\ log[j].ok /\ GroupOf(log[j].idx) = g)

\* C10 (as claimed): the report lists the groups in the order in which they
\* are first seen among the recipients the dispatcher iterates.
C10_FirstSeenOrder ==
    mpc = "done" =>
        \A j, k \in 1..Len(report) :
            j < k => FirstSeen(report[j].key) < FirstSeen(report[k].key)

\* C10 (amended): the report has one line per group with a successful send,
\* and lists the groups in the order of their first successful send.
C10_FirstSuccessOrder ==
    mpc = "done" =>
        /\ \A g \in Depts : Successes(g) > 0 <=>
             Cardinality({k \in 1..Len(report) : report[k].key = g}) = 1
        /\ \A k \in 1..Len(report) : Successes(report[k].key) > 0
        /\ \A j, k \in 1..Len(report) :
             j < k => FirstSuccess(report[j].key) < FirstSuccess(report[k].key)

C10_Witness ==
    /\ mpc = "done"
    /\ Len(report) = 2
    /\ ~Attempts[1].ok
    /\ report[2].key = GroupOf(1)

\* ------------------------------------------------------------- SpecRender
\* The body with each placeholder found in it, from left to right, replaced
\* by the recipient's value.
RECURSIVE SubstituteFrom(_, _, _, _)
SubstituteFrom(b, n, d, i) ==
    IF i >= Len(b) THEN <<>>
    ELSE IF StartsAt(b, NamePlaceholder, i)
         THEN n \o SubstituteFrom(b, n, d, i + Len(NamePlaceholder))
    ELSE IF StartsAt(b, DepartmentPlaceholder, i)
         THEN d \o SubstituteFrom(b, n, d, i + Len(DepartmentPlaceholder))
    ELSE <<b[i + 1]>> \o SubstituteFrom(b, n, d, i + 1)

\* C6: the rendered body is the template body with every #name# in it
\* replaced by the recipient's name and every #department# in it replaced by
\* the recipient's group code, followed by one beacon tag at the very end.
C6_PlaceholdersOfTheTemplateReplaced ==
    rpc = "done" =>
        rendered = SubstituteFrom(body, name, department, 0) \o BeaconTag

\* ---------------------------------------------------------- SpecValidator
\* The scan in which the search for each marker starts after the match of
\* the marker before it.
RECURSIVE ScanAfter(_, _, _)
ScanAfter(text, k, from) ==
    IF k > Len(required_elements) THEN TRUE
    ELSE LET found == PyFind(text, required_elements[k], from)
         IN  IF found = -1 THEN FALSE
             ELSE ScanAfter(text, k + 1, found + Len(required_elements[k]))

\* C5: on an existing .txt file the template validator returns true iff the
\* six markers are found by a forward scan in which no two matches overlap,
\* the search for each marker starting after the match of the one before.
C5_ValidIffNonOverlappingScan ==
    (called = "txt" /\ exists /\ EndsWith(file_path, TxtSuffix)) =>
        (result = "true" <=> ScanAfter(content, 1, 0))

\* C8: both validators end by returning true or false, whatever the path
\* and the file hold; neither raises.
C8_ValidatorsNeverRaise ==
    called # "none" => result \in {"true", "false"}

====
